---- MODULE Spec2Model ----
(***************************************************************************)
(* Price tracking and scheduling subsystem of the ai-price-tracker         *)
(* browser extension: PriceDataManager (the storage-backed price ledger),  *)
(* NotificationManager, PriceCheckScheduler and BackgroundPriceTracker.    *)
(*                                                                         *)
(* Conventions                                                             *)
(*  - A JavaScript string that the code parses (a price) is a sequence of  *)
(*    one-character strings; the empty string is << >> and null/undefined  *)
(*    is Null.                                                             *)
(*  - A number produced by parseFloat is a record [nan, val]: val is the   *)
(*    value in units of 10^-Scale, nan marks NaN.                          *)
(*  - An ISO timestamp is the reading of the clock it was made from        *)
(*    (Date <-> ISO string is exact at the clock's resolution); the date   *)
(*    part of it is the day the reading falls in.                          *)
(*  - browser.storage.local is one variable per key.                       *)
(***************************************************************************)
EXTENDS Integers, Sequences, FiniteSets, TLC

VARIABLES
  trackedPrices,        \* storage key 'trackedPrices': array of tracked items
  trackedItems,         \* storage key 'trackedItems': object url -> item info
  priceDropHistory,     \* storage key 'priceDropHistory': array of records
  lastNotificationUrl,  \* storage key 'lastNotificationUrl'
  priceAlarmEnabled,    \* storage key 'priceAlarmEnabled'
  apiKey,               \* storage key 'apiKey'
  alarms,               \* browser.alarms: names of the alarms that exist
  listeners,            \* number of listeners added to browser.alarms.onAlarm
  priceTracker,         \* PriceCheckScheduler.priceTracker is set
  notifications,        \* browser notifications created so far
  now,                  \* the clock read by new Date()
  calls,                \* PriceDataManager calls between their read and write
  runs,                 \* checkAllPrices runs started so far
  startupTimers,        \* startup checks scheduled by setTimeout
  popupPrices,          \* PriceTracker.trackedPrices of the popup
  popupItems,           \* PriceTracker.trackedItems of the popup
  trackButtonDisabled,  \* the popup's track button is disabled
  isClickHandlerSetup,  \* NotificationManager.isClickHandlerSetup
  openedTabs,           \* urls of the tabs opened by browser.tabs.create
  ncalls,               \* number of operations started so far
  ev                    \* the operation performed last: its arguments and
                        \* the trackedPrices it found in storage

vars == << trackedPrices, trackedItems, priceDropHistory, lastNotificationUrl,
           priceAlarmEnabled, apiKey, alarms, listeners, priceTracker,
           notifications, startupTimers, popupPrices, popupItems,
           trackButtonDisabled, isClickHandlerSetup, openedTabs, now, calls,
           runs, ncalls, ev >>

storageVars == << trackedPrices, trackedItems, priceDropHistory,
                  lastNotificationUrl, priceAlarmEnabled, apiKey >>

browserVars == << alarms, listeners, priceTracker, notifications,
                  startupTimers >>

popupVars == << popupPrices, popupItems, trackButtonDisabled >>

uiVars == << popupPrices, popupItems, trackButtonDisabled,
             isClickHandlerSetup, openedTabs >>

-----------------------------------------------------------------------------
(* Bounds of the model *)

\* decimals kept by a parsed number
Scale == 3
\* clock readings per day
DayLength == 2
\* last clock reading of the ledger specifications
MaxTime == 1
\* PriceDataManager calls of one behaviour of Spec
MaxCalls == 3
\* clock readings per hour
HourLength == 1
\* last clock reading of SpecCap
MaxTimeCap == 1
\* PriceDataManager calls of one behaviour of SpecConc
MaxConcCalls == 3
\* checkAllPrices runs of one behaviour
MaxRuns == 2
\* PriceCheckScheduler.initialize calls of one behaviour
MaxInits == 2

(* Program constants *)

\* PriceDataManager.addPriceToHistory: entries kept per item
MAX_HISTORY == 50
\* NotificationManager.storePriceDropNotification: records kept
MAX_NOTIFICATIONS == 50

PRICE_CHECK_ALARM_NAME == "priceCheckAlarm"
UNKNOWN_PRODUCT == "Unknown Product"

-----------------------------------------------------------------------------
(* JavaScript values *)

Null == << "null" >>
ZeroPrice == << "0", ".", "0", "0" >>

Digits == {"0", "1", "2", "3", "4", "5", "6", "7", "8", "9"}

DigitVal(c) ==
  CASE c = "0" -> 0 [] c = "1" -> 1 [] c = "2" -> 2 [] c = "3" -> 3
    [] c = "4" -> 4 [] c = "5" -> 5 [] c = "6" -> 6 [] c = "7" -> 7
    [] c = "8" -> 8 [] c = "9" -> 9

\* !x for a string or null
Falsy(s) == s = Null \/ s = << >>

NaN == [nan |-> TRUE, val |-> 0]
Num(v) == [nan |-> FALSE, val |-> v]

\* a === b and a < b on numbers (both false when either is NaN)
NumEq(a, b) == ~a.nan /\ ~b.nan /\ a.val = b.val
NumLt(a, b) == ~a.nan /\ ~b.nan /\ a.val < b.val

\* the longest prefix of s made of digits
RECURSIVE DigitPrefix(_)
DigitPrefix(s) ==
  IF s = << >> \/ Head(s) \notin Digits THEN << >>
  ELSE << Head(s) >> \o DigitPrefix(Tail(s))

RECURSIVE DigitsToNat(_)
DigitsToNat(s) ==
  IF s = << >> THEN 0
  ELSE 10 * DigitsToNat(SubSeq(s, 1, Len(s) - 1)) + DigitVal(s[Len(s)])

\* String.replace(',', '.'): only the first comma is replaced
RECURSIVE ReplaceFirstComma(_)
ReplaceFirstComma(s) ==
  IF s = << >> THEN << >>
  ELSE IF Head(s) = "," THEN << "." >> \o Tail(s)
  ELSE << Head(s) >> \o ReplaceFirstComma(Tail(s))

\* parseFloat on a string of digits, dots and commas: the longest prefix
\* digits [ '.' digits ], NaN when that prefix holds no digit
parseFloat(s) ==
  LET ip   == DigitPrefix(s)
      rest == SubSeq(s, Len(ip) + 1, Len(s))
      fp   == IF rest # << >> /\ Head(rest) = "." THEN DigitPrefix(Tail(rest))
              ELSE << >>
  IN IF ip = << >> /\ fp = << >> THEN NaN
     ELSE Num(DigitsToNat(ip) * 10^Scale + DigitsToNat(fp) * 10^(Scale - Len(fp)))

IsDigitOrComma(c) == c \in Digits \cup {","}

\* extractNumeric of PriceDataManager._shouldAddPriceToHistory
extractNumeric(priceStr) ==
  IF Falsy(priceStr) THEN Num(0)
  ELSE LET numericPart == SelectSeq(priceStr, IsDigitOrComma)
       IN IF numericPart # << >> THEN parseFloat(ReplaceFirstComma(numericPart))
          ELSE Num(0)

\* extractNumeric of BackgroundPriceTracker.isPriceLower
extractNumericTracker(priceStr) ==
  IF Falsy(priceStr) THEN Num(0)
  ELSE LET numericPart == SelectSeq(priceStr, IsDigitOrComma)
       IN IF numericPart # << >> THEN parseFloat(ReplaceFirstComma(numericPart))
          ELSE Num(0)

DateOf(t) == t \div DayLength

-----------------------------------------------------------------------------
(* PriceDataManager: structure of the stored data *)

\* a || b on names and image urls ('' is falsy)
OrElse(a, b) == IF a = "" THEN b ELSE a

\* a find that matches nothing
FindIndexNever(tp, url) == 0

\* index of the first item of tp with this url (Array.find), 0 when none
FindIndex(tp, url) ==
  IF \E i \in 1..Len(tp) : tp[i].url = url
  THEN CHOOSE i \in 1..Len(tp) :
         tp[i].url = url /\ \A j \in 1..(i - 1) : tp[j].url # url
  ELSE 0

createPriceHistoryEntry(price, t) ==
  [price     |-> IF Falsy(price) THEN ZeroPrice ELSE price,
   date      |-> DateOf(t),
   timestamp |-> t]

\* items are objects with a non-empty string url, lastChecked and the
\* entries' date and timestamp are always present: the name, the image url
\* and the entries' price are what normalisation can change; an entry of
\* the older flat format (url, name, price, date) has no history and gets an
\* empty one, its other fields are dropped
_validateTrackedPriceItem(item) ==
  [url         |-> item.url,
   name        |-> OrElse(item.name, UNKNOWN_PRODUCT),
   imageUrl    |-> OrElse(item.imageUrl, ""),
   lastChecked |-> item.lastChecked,
   history     |-> LET history == IF "history" \in DOMAIN item
                                      THEN item.history ELSE << >>
                   IN [i \in 1..Len(history) |->
                        [price     |-> IF Falsy(history[i].price)
                                       THEN ZeroPrice ELSE history[i].price,
                         date      |-> history[i].date,
                         timestamp |-> history[i].timestamp]]]

_validateTrackedPricesArray(tp) ==
  [i \in 1..Len(tp) |-> _validateTrackedPriceItem(tp[i])]

createTrackedPriceItem(url, productName, imageUrl, t) ==
  _validateTrackedPriceItem(
    [url         |-> url,
     name        |-> OrElse(productName, UNKNOWN_PRODUCT),
     imageUrl    |-> OrElse(imageUrl, ""),
     lastChecked |-> t,
     history     |-> << >>])

\* getTrackedPrices: the stored array, normalised
getTrackedPrices(stored) == _validateTrackedPricesArray(stored)

\* the prices compared as strings
ShouldAddComparingStrings(lastPrice, newPrice) ==
  IF Falsy(lastPrice) THEN TRUE ELSE lastPrice # newPrice

_shouldAddPriceToHistory(lastPrice, newPrice) ==
  IF Falsy(lastPrice) THEN TRUE
  ELSE ~NumEq(extractNumeric(lastPrice), extractNumeric(newPrice))

\* the push without the shift
PushUncapped(history, entry, cap) == Append(history, entry)

\* the shift one entry early
PushCappedEarly(history, entry, cap) ==
  LET pushed == Append(history, entry)
  IN IF Len(pushed) >= cap THEN Tail(pushed) ELSE pushed

\* history.push(entry), then history.shift() when longer than MAX_HISTORY
PushCapped(history, entry, cap) ==
  LET pushed == Append(history, entry)
  IN IF Len(pushed) > cap THEN Tail(pushed) ELSE pushed

\* addPriceToHistory, lines 276-304: the array handed to saveTrackedPrices
\* when the array read is tp and the clock reads t
AddPriceUpdate(tp, url, productName, price, imageUrl, t) ==
  LET found   == FindIndex(tp, url)
      arr     == IF found = 0
                 THEN Append(tp, createTrackedPriceItem(url, productName, imageUrl, t))
                 ELSE [tp EXCEPT ![found] =
                         [@ EXCEPT !.name        = OrElse(productName, @),
                                   !.lastChecked = t,
                                   !.imageUrl    = OrElse(imageUrl, @)]]
      idx     == IF found = 0 THEN Len(arr) ELSE found
      history == arr[idx].history
      lastPrice == IF history = << >> THEN Null ELSE history[Len(history)].price
  IN IF _shouldAddPriceToHistory(lastPrice, price)
     THEN [arr EXCEPT ![idx].history =
             PushCapped(history, createPriceHistoryEntry(price, t), MAX_HISTORY)]
     ELSE arr

\* findOrCreateTrackedItem, lines 235-256: the array handed to saveTrackedPrices
FindOrCreateUpdate(tp, url, productName, imageUrl, t) ==
  LET found == FindIndex(tp, url)
  IN IF found = 0
     THEN Append(tp, [url |-> url, name |-> productName, imageUrl |-> imageUrl,
                      lastChecked |-> t, history |-> << >>])
     ELSE [tp EXCEPT ![found] =
             [@ EXCEPT !.name        = OrElse(productName, @),
                       !.lastChecked = t,
                       !.imageUrl    = OrElse(imageUrl, @)]]

\* a filter that keeps nothing
RemoveUpdateAll(tp, url) == << >>

\* removeTrackedItem, line 499: the items kept
RemoveUpdate(tp, url) == SelectSeq(tp, LAMBDA item : item.url # url)

\* delete trackedItems[url]
DeleteKey(obj, url) == [k \in (DOMAIN obj) \ {url} |-> obj[k]]

\* saveTrackedPrices / saveAllTrackedData: what storage holds after the
\* write; a rejected storage.local.set is caught and leaves storage as it was
saveTrackedPrices(stored, tp, ok) ==
  IF ok THEN _validateTrackedPricesArray(tp) ELSE stored

-----------------------------------------------------------------------------
(* The clock *)

Tick(max) ==
  /\ now < max
  /\ now' = now + 1
  /\ ev' = [op |-> "tick"]
  /\ UNCHANGED << uiVars, storageVars, browserVars, calls, runs >>

-----------------------------------------------------------------------------
(* PriceDataManager operations, run one at a time *)

\* addPriceToHistory, lines 306-311: the value of saveTrackedPrices is
\* dropped and true is returned; false is returned from the catch, which
\* nothing reaches, as getTrackedPrices and saveTrackedPrices catch their
\* own errors
addPriceToHistoryReturns(saved) == TRUE

AddPriceToHistory(url, productName, price, imageUrl, ok) ==
  /\ trackedPrices' =
       saveTrackedPrices(trackedPrices,
         AddPriceUpdate(getTrackedPrices(trackedPrices), url, productName,
                        price, imageUrl, now), ok)
  /\ ev' = [op |-> "addPriceToHistory", url |-> url, name |-> productName,
            price |-> price, imageUrl |-> imageUrl, ok |-> ok,
            before |-> trackedPrices,
            returned |-> addPriceToHistoryReturns(ok)]
  /\ UNCHANGED << uiVars, trackedItems, priceDropHistory, lastNotificationUrl,
                  priceAlarmEnabled, apiKey, browserVars, now, calls, runs >>

FindOrCreateTrackedItem(url, productName, imageUrl, ok) ==
  /\ trackedPrices' =
       saveTrackedPrices(trackedPrices,
         FindOrCreateUpdate(getTrackedPrices(trackedPrices), url, productName,
                            imageUrl, now), ok)
  /\ ev' = [op |-> "findOrCreateTrackedItem", url |-> url,
            name |-> productName, imageUrl |-> imageUrl, ok |-> ok,
            before |-> trackedPrices]
  /\ UNCHANGED << uiVars, trackedItems, priceDropHistory, lastNotificationUrl,
                  priceAlarmEnabled, apiKey, browserVars, now, calls, runs >>

\* getAllTrackedData returns the stored array as it is; saveAllTrackedData
\* normalises it and writes both keys in one storage.local.set
RemoveTrackedItem(url, ok) ==
  /\ trackedPrices' =
       saveTrackedPrices(trackedPrices, RemoveUpdate(trackedPrices, url), ok)
  /\ trackedItems' = IF ok THEN DeleteKey(trackedItems, url) ELSE trackedItems
  /\ ev' = [op |-> "removeTrackedItem", url |-> url, ok |-> ok,
            before |-> trackedPrices, itemsBefore |-> trackedItems]
  /\ UNCHANGED << uiVars, priceDropHistory, lastNotificationUrl, priceAlarmEnabled,
                  apiKey, browserVars, now, calls, runs >>

-----------------------------------------------------------------------------
(* Inputs *)

U1 == "https://shop.example/a"
U2 == "https://shop.example/b"
Urls == {U1, U2}

Images == {"", "a.png"}

P_1c5  == << "$", "1", ",", "5" >>
P_1c50 == << "1", ",", "5", "0" >>
P_2    == << "$", "2" >>
P_nan  == << "n", ",", "a" >>
P_none == << >>

Prices == {P_1c5, P_1c50, P_2, P_nan, P_none}
CapPrices == {P_1c5, P_2}

NoItems == [k \in {} |-> ""]

InitCommon ==
  /\ priceDropHistory = << >>
  /\ lastNotificationUrl = ""
  /\ alarms = {}
  /\ listeners = 0
  /\ priceTracker = FALSE
  /\ notifications = << >>
  /\ startupTimers = << >>
  /\ popupPrices = << >>
  /\ popupItems = NoItems
  /\ trackButtonDisabled = FALSE
  /\ isClickHandlerSetup = FALSE
  /\ openedTabs = << >>
  /\ now = 0
  /\ calls = << >>
  /\ runs = << >>
  /\ ncalls = 0
  /\ ev = [op |-> "init"]

\* empty storage
Init ==
  /\ InitCommon
  /\ trackedPrices = << >>
  /\ trackedItems = [k \in {U1} |-> [name |-> "Lamp", imageUrl |-> "a.png"]]
  /\ priceAlarmEnabled = "undefined"
  /\ apiKey = ""

\* one more operation, at most max of them in a behaviour
Count(max) == ncalls < max /\ ncalls' = ncalls + 1

Next ==
  \/ Tick(MaxTime) /\ UNCHANGED ncalls
  \/ /\ Count(MaxCalls)
     /\ \E u \in Urls, p \in Prices, ok \in BOOLEAN :
          AddPriceToHistory(u, "Lamp", p, "", ok)
  \/ /\ Count(MaxCalls)
     /\ \E u \in Urls, i \in Images :
          FindOrCreateTrackedItem(u, "", i, TRUE)
  \/ /\ Count(MaxCalls)
     /\ \E u \in Urls, ok \in BOOLEAN : RemoveTrackedItem(u, ok)

Spec == Init /\ [][Next]_vars

\* the ledger of one item up to and beyond its limit: U2 is recorded first,
\* then U1 with alternating prices; the clock is left at its first reading
\* until the history of U1 is full, so that the entries that matter to the
\* limit are told apart by their timestamps
HistoryFull(url) ==
  \E i \in 1..Len(trackedPrices) :
    trackedPrices[i].url = url /\ Len(trackedPrices[i].history) = MAX_HISTORY

NextCap ==
  \/ HistoryFull(U1) /\ Tick(MaxTimeCap) /\ UNCHANGED ncalls
  \/ /\ UNCHANGED ncalls
     /\ \E p \in CapPrices, ok \in BOOLEAN : AddPriceToHistory(U1, "Lamp", p, "", ok)
  \/ /\ UNCHANGED ncalls
     /\ trackedPrices = << >>
     /\ AddPriceToHistory(U2, "", P_1c5, "a.png", TRUE)

SpecCap == Init /\ [][NextCap]_vars

-----------------------------------------------------------------------------
(* PriceDataManager operations that interleave: each call reads storage when
   it starts, and computes and writes when its read has returned; any other
   call may read or write in between *)

OpNames == {"addPriceToHistory", "findOrCreateTrackedItem", "removeTrackedItem"}

\* the first await of a call: getTrackedPrices (normalised) for
\* addPriceToHistory and findOrCreateTrackedItem, getAllTrackedData (as
\* stored) for removeTrackedItem
ReadStep(op, url, productName, price, imageUrl) ==
  /\ calls' = Append(calls,
       [op |-> op, url |-> url, name |-> productName, price |-> price,
        imageUrl |-> imageUrl,
        tp    |-> IF op = "removeTrackedItem" THEN trackedPrices
                  ELSE getTrackedPrices(trackedPrices),
        items |-> trackedItems])
  /\ ev' = [op |-> "read", call |-> op, url |-> url]
  /\ UNCHANGED << uiVars, storageVars, browserVars, now, runs >>

\* the array a call hands to storage, computed from what it read
UpdateOf(call, t) ==
  CASE call.op = "addPriceToHistory" ->
         AddPriceUpdate(call.tp, call.url, call.name, call.price, call.imageUrl, t)
    [] call.op = "findOrCreateTrackedItem" ->
         FindOrCreateUpdate(call.tp, call.url, call.name, call.imageUrl, t)
    [] call.op = "removeTrackedItem" ->
         RemoveUpdate(call.tp, call.url)

\* the rest of call number i: the update and the storage.local.set
WriteStep(i, ok) ==
  /\ i \in 1..Len(calls)
  /\ trackedPrices' = saveTrackedPrices(trackedPrices, UpdateOf(calls[i], now), ok)
  /\ trackedItems' =
       IF calls[i].op = "removeTrackedItem" /\ ok
       THEN DeleteKey(calls[i].items, calls[i].url) ELSE trackedItems
  /\ calls' = [k \in 1..(Len(calls) - 1) |-> IF k < i THEN calls[k] ELSE calls[k + 1]]
  /\ ev' = [op |-> "write", call |-> calls[i].op, url |-> calls[i].url,
            read |-> calls[i].tp, ok |-> ok, before |-> trackedPrices]
  /\ UNCHANGED << uiVars, priceDropHistory, lastNotificationUrl, priceAlarmEnabled,
                  apiKey, browserVars, now, runs >>

NextConc ==
  \/ Tick(MaxTime) /\ UNCHANGED ncalls
  \/ /\ Count(MaxConcCalls)
     /\ \E op \in OpNames, u \in Urls :
          \E p \in (IF op = "addPriceToHistory" THEN CapPrices ELSE {Null}) :
            ReadStep(op, u, "Lamp", p, "")
  \/ /\ UNCHANGED ncalls
     /\ \E i \in 1..Len(calls), ok \in BOOLEAN : WriteStep(i, ok)

SpecConc == Init /\ [][NextConc]_vars

-----------------------------------------------------------------------------
(* NotificationManager *)

DropRecord(url, productName, oldPrice, newPrice, t) ==
  [url |-> url, productName |-> productName, oldPrice |-> oldPrice,
   newPrice |-> newPrice, timestamp |-> t]

\* the limit of PriceDataManager.addNotificationToHistory
StoreUpdateKeeping100(history, record) ==
  LET pushed == Append(history, record)
  IN IF Len(pushed) > 100 THEN Tail(pushed) ELSE pushed

\* storePriceDropNotification, lines 58-72: the array handed to storage
StoreUpdate(history, record) ==
  LET pushed == Append(history, record)
  IN IF Len(pushed) > MAX_NOTIFICATIONS THEN Tail(pushed) ELSE pushed

\* a rejected storage.local.set is caught and logged
StorePriceDropNotification(url, productName, oldPrice, newPrice, ok) ==
  /\ priceDropHistory' =
       IF ok THEN StoreUpdate(priceDropHistory,
                              DropRecord(url, productName, oldPrice, newPrice, now))
       ELSE priceDropHistory
  /\ ev' = [op |-> "storePriceDropNotification", url |-> url,
            name |-> productName, oldPrice |-> oldPrice, newPrice |-> newPrice,
            ok |-> ok, before |-> priceDropHistory]
  /\ UNCHANGED << uiVars, trackedPrices, trackedItems, lastNotificationUrl,
                  priceAlarmEnabled, apiKey, browserVars, now, calls, runs >>

\* the record store up to and beyond its limit; the clock is left at its
\* first reading until the store is full
NextNotif ==
  \/ /\ Len(priceDropHistory) = MAX_NOTIFICATIONS
     /\ Tick(MaxTimeCap) /\ UNCHANGED ncalls
  \/ /\ UNCHANGED ncalls
     /\ \E ok \in BOOLEAN :
          StorePriceDropNotification(U1, "Lamp", P_2, P_1c5, ok)

SpecNotif == Init /\ [][NextNotif]_vars

-----------------------------------------------------------------------------
(* BackgroundPriceTracker *)

\* a page content: the page its title and body were taken from, and the url
\* it carries
Content(page, url) == [thrown |-> FALSE, page |-> page, url |-> url]
Thrown == [thrown |-> TRUE, page |-> "", url |-> ""]

\* the content with 'Product information not available' as its body
FallbackContent(url) == Content("fallback", url)

\* the object the injected script evaluates to in the active tab: the title
\* and body of the page shown there, and as url the target url written into
\* the script, or window.location.href when there is none
ScriptResult(activeTabUrl, targetUrl) ==
  Content(activeTabUrl, IF targetUrl # "" THEN targetUrl ELSE activeTabUrl)

\* getPageContent: throws when the script cannot run in the active tab, or
\* when a target url was given and the url of the content differs from it
getPageContent(activeTabUrl, targetUrl, scriptOk) ==
  IF ~scriptOk THEN Thrown
  ELSE LET pageContent == ScriptResult(activeTabUrl, targetUrl)
       IN IF targetUrl # "" /\ pageContent.url # targetUrl THEN Thrown
          ELSE pageContent

\* a fetch that takes a 503 for any other failure
fetchPageContentNoRethrow(url, fetch) ==
  IF fetch = "ok" THEN Content(url, url) ELSE FallbackContent(url)

\* fetchPageContentDirectly: the content of the page, the fallback content
\* for a failure, and the error thrown again for a 503
fetchPageContentDirectly(url, fetch) ==
  CASE fetch = "ok"     -> Content(url, url)
    [] fetch = "503"    -> Thrown
    [] fetch = "failed" -> FallbackContent(url)

\* a comparison that takes an equal price for a lower one
isPriceNotHigher(currentPrice, oldPrice) ==
  ~NumLt(extractNumericTracker(oldPrice), extractNumericTracker(currentPrice))

\* isPriceLower
isPriceLower(currentPrice, oldPrice) ==
  NumLt(extractNumericTracker(currentPrice), extractNumericTracker(oldPrice))

\* history.reduce(...): the entry with the greatest timestamp, the first of
\* them when several have it
RECURSIVE ReduceLatest(_, _)
ReduceLatest(latest, rest) ==
  IF rest = << >> THEN latest
  ELSE ReduceLatest(IF Head(rest).timestamp > latest.timestamp
                    THEN Head(rest) ELSE latest, Tail(rest))

\* the entry getLatestPricePerUrl makes of one item: a first-time entry
\* without price for an empty history, else the item with its latest price
LatestEntryOf(stored) ==
  LET item == IF "history" \in DOMAIN stored /\ stored.history # << >>
              THEN stored ELSE _validateTrackedPriceItem(stored)
  IN
  IF item.history = << >>
  THEN [url |-> item.url, name |-> item.name, imageUrl |-> item.imageUrl,
        lastChecked |-> item.lastChecked, price |-> Null, isFirstTime |-> TRUE]
  ELSE [url |-> item.url, name |-> item.name, imageUrl |-> item.imageUrl,
        lastChecked |-> item.lastChecked,
        price |-> ReduceLatest(Head(item.history), Tail(item.history)).price,
        isFirstTime |-> FALSE]

\* the keys of latestPrices in the order Object.entries lists them: the urls
\* in the order of their first item
RECURSIVE LatestKeys(_)
LatestKeys(tp) ==
  IF tp = << >> THEN << >>
  ELSE LET front == LatestKeys(SubSeq(tp, 1, Len(tp) - 1))
           url   == tp[Len(tp)].url
       IN IF \E k \in 1..Len(front) : front[k] = url THEN front
          ELSE Append(front, url)

\* latestPrices[url]: a later item of the same url overwrites an earlier one
getLatestPricePerUrl(tp, url) ==
  LatestEntryOf(tp[CHOOSE i \in 1..Len(tp) :
                     tp[i].url = url /\ \A j \in (i + 1)..Len(tp) : tp[j].url # url])

\* the gate that lets every settings value but a missing key through
GateOpenUnlessFalse(enabled, key) == enabled # "false" /\ key # ""

\* checkAllPrices, lines 351-362: priceAlarmEnabled === true and an apiKey
GateOpen(enabled, key) == enabled = "true" /\ key # ""

\* a loop that an error ends
RemainingAfterAbort(todo, failed) == IF failed THEN << >> ELSE Tail(todo)

\* the for loop over Object.entries(latestPrices): the try/catch inside the
\* loop, and the continue of a 503, go on with the next url
RemainingAfter(todo, failed) == Tail(todo)

\* sendPriceDropNotification: the notification created
Notification(url, productName, oldPrice, newPrice) ==
  [url |-> url, productName |-> productName, oldPrice |-> oldPrice,
   newPrice |-> newPrice]

LLMError == [ok |-> FALSE, name |-> "", price |-> << >>]
LLMData(name, price) == [ok |-> TRUE, name |-> name, price |-> price]

\* a run of checkAllPrices that has read nothing yet
NewRun == [kind |-> "checkAllPrices", pc |-> "start", trackedPrices |-> << >>,
           todo |-> << >>, fetched |-> << >>, extracted |-> << >>,
           saved |-> << >>, notified |-> << >>]

\* a run of checkItemsOnStartup on the tracked prices handed to it
StartupRun(tp) == [NewRun EXCEPT !.kind = "checkItemsOnStartup",
                                 !.trackedPrices = tp]

\* checkAllPrices up to its loop: the tracked prices and the settings are
\* read, and the run ends here unless the gate is open. checkItemsOnStartup
\* up to its loop: the tracked prices are those handed over, and the run
\* ends here unless an apiKey is stored
RunStart(r) ==
  /\ r \in 1..Len(runs)
  /\ runs[r].pc = "start"
  /\ LET startup == runs[r].kind = "checkItemsOnStartup"
         tp   == IF startup THEN runs[r].trackedPrices
                 ELSE getTrackedPrices(trackedPrices)
         open == IF startup THEN apiKey # ""
                 ELSE GateOpen(priceAlarmEnabled, apiKey)
     IN runs' = [runs EXCEPT ![r] =
          IF open /\ LatestKeys(tp) # << >>
          THEN [@ EXCEPT !.pc = "loop", !.trackedPrices = tp, !.todo = LatestKeys(tp)]
          ELSE [@ EXCEPT !.pc = "done", !.trackedPrices = tp]]
  /\ ev' = [op |-> "runStart", run |-> r]
  /\ UNCHANGED << uiVars, storageVars, browserVars, now, calls >>

\* one iteration of the loop of checkAllPrices, or of the loop of
\* checkItemsOnStartup, which compares no price for an item seen for the
\* first time, for the next url of run r.
\* fetch is the answer to the page fetch: "ok", "503", or "failed" (any
\* other failure, for which fetchPageContentDirectly returns the fallback
\* content); data is what extractDataWithOpenAI returns (a name and a price,
\* both non-empty) or LLMError when it throws. The fetch and the LLM call
\* take time: the clock is read later than by anything before.
RunCheckUrl(r, fetch, data, ok) ==
  /\ r \in 1..Len(runs)
  /\ runs[r].pc = "loop"
  /\ LET url         == Head(runs[r].todo)
         latestEntry == getLatestPricePerUrl(runs[r].trackedPrices, url)
         t           == now + 1
         extracts    == ~fetchPageContentDirectly(url, fetch).thrown
         hasData     == extracts /\ data.ok
         oldPrice    == latestEntry.price
         lower       == /\ hasData
                        /\ runs[r].kind = "checkItemsOnStartup" =>
                             ~latestEntry.isFirstTime
                        /\ isPriceLower(data.price, oldPrice)
         rest        == RemainingAfter(runs[r].todo, ~hasData)
     IN /\ now' = t
        /\ trackedPrices' =
             IF hasData
             THEN saveTrackedPrices(trackedPrices,
                    AddPriceUpdate(getTrackedPrices(trackedPrices), url,
                                   OrElse(data.name, UNKNOWN_PRODUCT), data.price,
                                   OrElse(latestEntry.imageUrl, ""), t), ok)
             ELSE trackedPrices
        /\ notifications' =
             IF lower
             THEN Append(notifications,
                         Notification(url, OrElse(data.name, latestEntry.name),
                                      oldPrice, data.price))
             ELSE notifications
        /\ lastNotificationUrl' = IF lower /\ ok THEN url ELSE lastNotificationUrl
        /\ isClickHandlerSetup' = (isClickHandlerSetup \/ lower)
        /\ priceDropHistory' =
             IF lower /\ ok
             THEN StoreUpdate(priceDropHistory,
                    DropRecord(url, OrElse(data.name, latestEntry.name),
                               oldPrice, data.price, t))
             ELSE priceDropHistory
        /\ runs' = [runs EXCEPT ![r] =
             [@ EXCEPT !.pc        = IF rest = << >> THEN "done" ELSE "loop",
                       !.todo      = rest,
                       !.fetched   = Append(@, url),
                       !.extracted = IF extracts THEN Append(@, url) ELSE @,
                       !.saved     = IF hasData THEN Append(@, url) ELSE @,
                       !.notified  = IF lower THEN Append(@, url) ELSE @]]
        /\ ev' = [op |-> "checkUrl", run |-> r, url |-> url, fetch |-> fetch,
                  data |-> data, ok |-> ok, before |-> trackedPrices,
                  notificationsBefore |-> notifications,
                  dropsBefore |-> priceDropHistory]
  /\ UNCHANGED << popupVars, openedTabs, trackedItems, priceAlarmEnabled,
                  apiKey, alarms, listeners, priceTracker, startupTimers,
                  calls >>

\* setupPriceTracking: the alarm is created unless one of its name exists
SetupPriceTracking(url, initialPrice) ==
  /\ alarms' = IF PRICE_CHECK_ALARM_NAME \in alarms THEN alarms
               ELSE alarms \cup {PRICE_CHECK_ALARM_NAME}
  /\ ev' = [op |-> "setupPriceTracking", url |-> url]
  /\ UNCHANGED << uiVars, storageVars, listeners, priceTracker, notifications,
                  startupTimers, now, calls, runs >>

-----------------------------------------------------------------------------
(* PriceCheckScheduler *)

\* getLatestPricePerUrl of the scheduler: only entries with a url and a
\* price of their own are kept
\* price: for each url the first of its entries with the latest date
SchedulerLatestIndexes(tp) ==
  LET priced == {i \in 1..Len(tp) : "price" \in DOMAIN tp[i] /\ ~Falsy(tp[i].price)}
  IN {i \in priced :
        \A j \in priced :
          tp[j].url = tp[i].url =>
            \/ tp[j].date < tp[i].date
            \/ tp[j].date = tp[i].date /\ j >= i}

\* getUrlsNeedingCheck: the urls whose latest entry was checked
\* hoursThreshold hours ago or more
getUrlsNeedingCheck(tp, hoursThreshold, t) ==
  {tp[i].url : i \in {k \in SchedulerLatestIndexes(tp) :
                        t - tp[k].lastChecked >= hoursThreshold * HourLength}}

\* initialize: the stored items (each has its lastChecked, none is given
\* one here) are saved back normalised, a startup check
\* is scheduled when some url needs one, the alarm is created or cleared
\* after the setting, and one more listener is added to onAlarm
Initialize(ok) ==
  /\ trackedPrices' = saveTrackedPrices(trackedPrices, trackedPrices, ok)
  /\ startupTimers' =
       IF getUrlsNeedingCheck(trackedPrices, 1, now) # {}
       THEN Append(startupTimers, trackedPrices) ELSE startupTimers
  /\ alarms' = IF priceAlarmEnabled = "true"
               THEN alarms \cup {PRICE_CHECK_ALARM_NAME}
               ELSE alarms \ {PRICE_CHECK_ALARM_NAME}
  /\ listeners' = listeners + 1
  /\ ev' = [op |-> "initialize", ok |-> ok, before |-> trackedPrices,
            timersBefore |-> startupTimers]
  /\ UNCHANGED << uiVars, trackedItems, priceDropHistory, lastNotificationUrl,
                  priceAlarmEnabled, apiKey, priceTracker, notifications,
                  now, calls, runs >>

SetPriceTracker ==
  /\ ~priceTracker
  /\ priceTracker' = TRUE
  /\ ev' = [op |-> "setPriceTracker"]
  /\ UNCHANGED << uiVars, storageVars, alarms, listeners, notifications,
                  startupTimers, now, calls, runs >>

\* the runs one listener starts for an alarm: handleAlarm calls
\* runScheduledCheck for the alarm of the scheduler's name, which calls
\* checkAllPrices when a price tracker is set
RunsPerListener(name) ==
  IF name = PRICE_CHECK_ALARM_NAME /\ priceTracker THEN 1 ELSE 0

\* an alarm fires: the browser calls every listener of onAlarm
AlarmFires(name) ==
  /\ name = PRICE_CHECK_ALARM_NAME => name \in alarms
  /\ runs' = runs \o [k \in 1..(listeners * RunsPerListener(name)) |-> NewRun]
  /\ ev' = [op |-> "alarm", name |-> name, runsBefore |-> Len(runs)]
  /\ UNCHANGED << uiVars, storageVars, browserVars, now, calls >>

-----------------------------------------------------------------------------
(* The scheduler and the price checks it starts *)

\* values of the priceAlarmEnabled key: the booleans, a missing key, and the
\* string 'true'
Settings == {"true", "false", "undefined", "'true'"}
ApiKeys == {"", "sk-test"}

P_2c00 == << "$", "2", ",", "0", "0" >>
P_3    == << "$", "3" >>

Lamp == [url |-> U1, name |-> "Lamp", imageUrl |-> "a.png", lastChecked |-> 0,
         history |-> << createPriceHistoryEntry(P_2, 0) >>]
Desk == [url |-> U2, name |-> "Desk", imageUrl |-> "", lastChecked |-> 0,
         history |-> << >>]

\* what the page answers ("ok", "503", or "failed" for any other failure)
\* with what the LLM call then returns; no LLM call follows a 503
Extractions == {LLMError} \cup {LLMData("Lamp", p) : p \in {P_1c5, P_2c00, P_3}}
Outcomes ==
  {<< "503", LLMError >>, << "failed", LLMError >>,
   << "failed", LLMData("Lamp", P_1c5) >>} \cup {<< "ok", d >> : d \in Extractions}
FewOutcomes ==
  {<< "503", LLMError >>, << "failed", LLMError >>, << "ok", LLMError >>,
   << "ok", LLMData("Lamp", P_1c5) >>}

OtherAlarm == "otherAlarm"

\* the extension is installed with one tracked item, nothing is set up yet
InitSched ==
  /\ InitCommon
  /\ trackedPrices = << Lamp >>
  /\ trackedItems = NoItems
  /\ priceAlarmEnabled \in Settings
  /\ apiKey \in ApiKeys

NextSched ==
  \/ listeners < MaxInits /\ Initialize(TRUE) /\ UNCHANGED ncalls
  \/ SetPriceTracker /\ UNCHANGED ncalls
  \/ SetupPriceTracking(U1, P_2) /\ UNCHANGED ncalls
  \/ /\ UNCHANGED ncalls
     /\ \E name \in {PRICE_CHECK_ALARM_NAME, OtherAlarm} :
          /\ Len(runs) + listeners * RunsPerListener(name) <= MaxRuns
          /\ AlarmFires(name)
  \/ /\ UNCHANGED ncalls
     /\ \E r \in 1..Len(runs) : RunStart(r)
  \/ /\ UNCHANGED ncalls
     /\ \E r \in 1..Len(runs), fetch \in {"ok", "503"} :
          RunCheckUrl(r, fetch, LLMData("Lamp", P_1c5), TRUE)

SpecSched == InitSched /\ [][NextSched]_vars

\* the background page is set up: initialize has run once and the price
\* tracker is set; the clock reads later than every stored timestamp
InitTracker ==
  /\ priceDropHistory = << >>
  /\ lastNotificationUrl = ""
  /\ notifications = << >>
  /\ startupTimers = << >>
  /\ popupPrices = << >>
  /\ popupItems = NoItems
  /\ trackButtonDisabled = FALSE
  /\ isClickHandlerSetup = FALSE
  /\ openedTabs = << >>
  /\ calls = << >>
  /\ runs = << >>
  /\ ncalls = 0
  /\ ev = [op |-> "init"]
  /\ now = 1
  /\ trackedItems = NoItems
  /\ trackedPrices \in {<< >>, << Lamp >>, << Lamp, Desk >>}
  /\ priceAlarmEnabled \in Settings
  /\ apiKey \in ApiKeys
  /\ listeners = 1
  /\ priceTracker = TRUE
  /\ alarms = IF priceAlarmEnabled = "true" THEN {PRICE_CHECK_ALARM_NAME} ELSE {}

\* no run is under way
Idle == \A r \in 1..Len(runs) : runs[r].pc = "done"

\* the alarm fires when the run of its last firing is over
NextTracker ==
  \/ SetupPriceTracking(U1, P_2) /\ UNCHANGED ncalls
  \/ /\ UNCHANGED ncalls
     /\ Idle /\ Len(runs) + listeners <= MaxRuns
     /\ AlarmFires(PRICE_CHECK_ALARM_NAME)
  \/ /\ UNCHANGED ncalls
     /\ \E r \in 1..Len(runs) : RunStart(r)
  \/ /\ UNCHANGED ncalls
     /\ \E r \in 1..Len(runs), o \in Outcomes : RunCheckUrl(r, o[1], o[2], TRUE)

SpecTracker == InitTracker /\ [][NextTracker]_vars

\* a run that can take a step takes one: every fetch and every LLM call
\* returns or fails
RunStep(r) ==
  /\ UNCHANGED ncalls
  /\ \/ RunStart(r)
     \/ \E o \in FewOutcomes : RunCheckUrl(r, o[1], o[2], TRUE)

NextRuns ==
  \/ SetupPriceTracking(U1, P_2) /\ UNCHANGED ncalls
  \/ /\ UNCHANGED ncalls
     /\ Idle /\ Len(runs) + listeners <= MaxRuns
     /\ AlarmFires(PRICE_CHECK_ALARM_NAME)
  \/ \E r \in 1..Len(runs) : RunStep(r)

SpecRuns ==
  /\ InitTracker
  /\ [][NextRuns]_vars
  /\ \A r \in 1..MaxRuns : WF_vars(RunStep(r))

-----------------------------------------------------------------------------
(* PriceCheckScheduler: the checks of a startup and of a refresh *)

\* checkItemsOnStartup of the scheduler: the runs of the price tracker's
\* checkItemsOnStartup it starts, none without an apiKey or a price tracker
checkItemsOnStartup(tp) ==
  IF apiKey # "" /\ priceTracker THEN << StartupRun(tp) >> ELSE << >>

\* the timer set by initialize expires
StartupTimerFires ==
  /\ startupTimers # << >>
  /\ startupTimers' = Tail(startupTimers)
  /\ runs' = runs \o checkItemsOnStartup(Head(startupTimers))
  /\ ev' = [op |-> "startupTimer", runsBefore |-> Len(runs)]
  /\ UNCHANGED << uiVars, storageVars, alarms, listeners, priceTracker,
                  notifications, now, calls >>

\* the keys of trackedItems in the order Object.entries lists them
UrlSeq == << U1, U2 >>
KeysOf(obj) == SelectSeq(UrlSeq, LAMBDA url : url \in DOMAIN obj)

\* checkAllTrackedItemsOnRefresh, lines 178-199: an item with the default
\* price '0.00' for each key of trackedItems
MigratedItems(items, t) ==
  [k \in 1..Len(KeysOf(items)) |->
     LET url == KeysOf(items)[k]
     IN [createTrackedPriceItem(url, OrElse(items[url].name, UNKNOWN_PRODUCT),
                                items[url].imageUrl, t)
           EXCEPT !.history = << createPriceHistoryEntry(ZeroPrice, t) >>]]

\* checkAllTrackedItemsOnRefresh: when trackedPrices is empty the keys of
\* trackedItems are migrated and saved; every item is then checked by
\* checkItemsOnStartup, whenever it was checked last
CheckAllTrackedItemsOnRefresh(ok) ==
  LET migrates == trackedPrices = << >> /\ DOMAIN trackedItems # {}
      tp       == IF migrates THEN MigratedItems(trackedItems, now)
                  ELSE trackedPrices
  IN /\ trackedPrices' = IF migrates THEN saveTrackedPrices(trackedPrices, tp, ok)
                         ELSE trackedPrices
     /\ runs' = IF tp = << >> THEN runs ELSE runs \o checkItemsOnStartup(tp)
     /\ ev' = [op |-> "refresh", ok |-> ok, runsBefore |-> Len(runs)]
     /\ UNCHANGED << uiVars, trackedItems, priceDropHistory, lastNotificationUrl,
                     priceAlarmEnabled, apiKey, browserVars, now, calls >>

\* an entry of the older flat format, as an earlier version stored it
LegacyLamp == [url |-> U1, name |-> "Lamp", imageUrl |-> "a.png",
               price |-> P_2, date |-> 0, lastChecked |-> 0]

\* a fetch answers 503, fails otherwise, or returns the page with a lower price
StartupOutcomes ==
  {<< "503", LLMError >>, << "failed", LLMError >>,
   << "ok", LLMData("Lamp", P_1c5) >>}

\* the browser starts on a storage that holds tracked items, an entry of
\* the older format, or only keys of trackedItems
InitStartup ==
  /\ InitCommon
  /\ \/ trackedPrices = << Lamp >> /\ trackedItems = NoItems
     \/ trackedPrices = << Lamp, Desk >> /\ trackedItems = NoItems
     \/ trackedPrices = << LegacyLamp >> /\ trackedItems = NoItems
     \/ /\ trackedPrices = << >>
        /\ trackedItems = [k \in {U1} |-> [name |-> "Lamp", imageUrl |-> "a.png"]]
  /\ priceAlarmEnabled \in {"true", "false"}
  /\ apiKey \in ApiKeys

\* the background script sets the scheduler up, once, before any check
\* starts; a check starts when the one before is over
NextStartup ==
  \/ Idle /\ Tick(MaxTime) /\ UNCHANGED ncalls
  \/ /\ UNCHANGED ncalls
     /\ runs = << >> /\ listeners = 0
     /\ Initialize(TRUE)
  \/ runs = << >> /\ SetPriceTracker /\ UNCHANGED ncalls
  \/ /\ UNCHANGED ncalls
     /\ Idle /\ Len(runs) < MaxRuns
     /\ StartupTimerFires
  \/ /\ UNCHANGED ncalls
     /\ Idle /\ Len(runs) < MaxRuns
     /\ CheckAllTrackedItemsOnRefresh(TRUE)
  \/ /\ UNCHANGED ncalls
     /\ Idle /\ Len(runs) + listeners <= MaxRuns
     /\ AlarmFires(PRICE_CHECK_ALARM_NAME)
  \/ /\ UNCHANGED ncalls
     /\ \E r \in 1..Len(runs) : RunStart(r)
  \/ /\ UNCHANGED ncalls
     /\ \E r \in 1..Len(runs), o \in StartupOutcomes :
          RunCheckUrl(r, o[1], o[2], TRUE)

SpecStartup == InitStartup /\ [][NextStartup]_vars

-----------------------------------------------------------------------------
(* PriceTracker of the popup and the sidebar *)

\* trackPrice, line 418: the urls that are not tracked
IsTrackable(url) == url # "" /\ url # "about:newtab"

\* trackPrice, lines 424-427
recentlyTracked(prices, url, currentDate) ==
  \E i \in 1..Len(prices) : prices[i].url = url /\ prices[i].date = currentDate

\* what the background script answers to the trackPrice message
ResponseError == [error |-> TRUE, name |-> "", price |-> << >>, imageUrl |-> ""]
ResponseData(name, price, imageUrl) ==
  [error |-> FALSE, name |-> name, price |-> price, imageUrl |-> imageUrl]

\* a click on the track button: trackPrice up to the read of the API key.
\* The url is that of the active tab; a disabled button takes no click.
TrackPriceClick(url) ==
  /\ ~trackButtonDisabled
  /\ LET currentDate == DateOf(now)
         goesOn == IsTrackable(url) /\ ~recentlyTracked(popupPrices, url, currentDate)
     IN /\ calls' = IF goesOn
                    THEN Append(calls, [op |-> "trackPrice", url |-> url,
                                        currentDate |-> currentDate, pc |-> "apiKey"])
                    ELSE calls
        /\ ev' = [op |-> "trackPriceClick", url |-> url, goesOn |-> goesOn]
  /\ UNCHANGED << storageVars, browserVars, uiVars, now, runs >>

\* trackPrice from the read of the API key to the message sent to the
\* background script: without a key the options page is opened and the call
\* ends, with one the button is disabled
TrackPriceApiKeyRead(i) ==
  /\ i \in 1..Len(calls)
  /\ calls[i].op = "trackPrice" /\ calls[i].pc = "apiKey"
  /\ calls' = [calls EXCEPT ![i].pc = IF apiKey = "" THEN "done" ELSE "response"]
  /\ trackButtonDisabled' = IF apiKey = "" THEN trackButtonDisabled ELSE TRUE
  /\ ev' = [op |-> "trackPriceApiKeyRead", call |-> i]
  /\ UNCHANGED << storageVars, browserVars, popupPrices, popupItems,
                  isClickHandlerSetup, openedTabs, now, runs >>

\* trackPrice from the response of the background script on: the entry is
\* pushed, the item added when the url has none, both are saved as they are
\* (saveData), and the button is enabled again; an error response only
\* enables the button
TrackPriceResponse(i, response, ok) ==
  /\ i \in 1..Len(calls)
  /\ calls[i].op = "trackPrice" /\ calls[i].pc = "response"
  /\ LET url      == calls[i].url
         newEntry == [date |-> calls[i].currentDate, name |-> response.name,
                      price |-> response.price, url |-> url,
                      imageUrl |-> response.imageUrl]
         prices   == IF response.error THEN popupPrices
                     ELSE Append(popupPrices, newEntry)
         items    == IF response.error \/ url \in DOMAIN popupItems THEN popupItems
                     ELSE [k \in (DOMAIN popupItems) \cup {url} |->
                             IF k = url
                             THEN [name |-> response.name,
                                   imageUrl |-> response.imageUrl]
                             ELSE popupItems[k]]
         saved    == ~response.error /\ ok
     IN /\ popupPrices' = prices
        /\ popupItems' = items
        /\ trackedPrices' = IF saved THEN prices ELSE trackedPrices
        /\ trackedItems' = IF saved THEN items ELSE trackedItems
        /\ ev' = [op |-> "trackPriceResponse", call |-> i, url |-> url,
                  response |-> response, ok |-> ok, before |-> popupPrices]
  /\ calls' = [calls EXCEPT ![i].pc = "done"]
  /\ trackButtonDisabled' = FALSE
  /\ UNCHANGED << priceDropHistory, lastNotificationUrl, priceAlarmEnabled,
                  apiKey, browserVars, isClickHandlerSetup, openedTabs, now,
                  runs >>

\* the popup is open on empty storage
InitPopup ==
  /\ InitCommon
  /\ trackedPrices = << >>
  /\ trackedItems = NoItems
  /\ priceAlarmEnabled = "undefined"
  /\ apiKey \in ApiKeys

NextPopup ==
  \/ Tick(MaxTime) /\ UNCHANGED ncalls
  \/ Count(MaxCalls) /\ \E url \in Urls \cup {"about:newtab"} : TrackPriceClick(url)
  \/ /\ UNCHANGED ncalls
     /\ \E i \in 1..Len(calls) : TrackPriceApiKeyRead(i)
  \/ /\ UNCHANGED ncalls
     /\ \E i \in 1..Len(calls), ok \in BOOLEAN,
           response \in {ResponseError, ResponseData("Lamp", P_2, "a.png")} :
          TrackPriceResponse(i, response, ok)

SpecPopup == InitPopup /\ [][NextPopup]_vars

-----------------------------------------------------------------------------
(* NotificationManager: notifications and the clicks on them *)

\* sendPriceDropNotification: the notification is created, the click
\* listener added once, and the url stored as lastNotificationUrl
SendPriceDropNotification(url, productName, oldPrice, newPrice, ok) ==
  /\ notifications' =
       Append(notifications, Notification(url, productName, oldPrice, newPrice))
  /\ isClickHandlerSetup' = TRUE
  /\ lastNotificationUrl' = IF ok THEN url ELSE lastNotificationUrl
  /\ ev' = [op |-> "sendPriceDropNotification", url |-> url, ok |-> ok]
  /\ UNCHANGED << trackedPrices, trackedItems, priceDropHistory,
                  priceAlarmEnabled, apiKey, alarms, listeners, priceTracker,
                  startupTimers, popupVars, openedTabs, now, calls, runs >>

\* handleNotificationClick for a click on the k-th notification created:
\* the id of the notification is not used, a tab is opened on the stored
\* lastNotificationUrl
HandleNotificationClick(k) ==
  /\ k \in 1..Len(notifications)
  /\ isClickHandlerSetup
  /\ openedTabs' = IF lastNotificationUrl # ""
                   THEN Append(openedTabs, lastNotificationUrl)
                   ELSE openedTabs
  /\ ev' = [op |-> "notificationClick", notification |-> k,
            clicked |-> notifications[k].url, tabsBefore |-> openedTabs]
  /\ UNCHANGED << storageVars, browserVars, popupVars, isClickHandlerSetup,
                  now, calls, runs >>

NextClick ==
  \/ /\ Count(MaxCalls)
     /\ \E url \in Urls, newPrice \in CapPrices :
          SendPriceDropNotification(url, "Lamp", P_3, newPrice, TRUE)
  \/ /\ Count(MaxCalls)
     /\ \E k \in 1..Len(notifications) : HandleNotificationClick(k)

SpecClick == Init /\ [][NextClick]_vars

-----------------------------------------------------------------------------
(* BackgroundPriceTracker.trackPrice *)

\* the content trackPrice hands to extractDataWithOpenAI
TrackPriceContent(url, activeTabUrl, scriptOk, fetch) ==
  LET fromTab == getPageContent(activeTabUrl, url, scriptOk)
      direct  == fetchPageContentDirectly(url, fetch)
  IN IF ~fromTab.thrown THEN fromTab
     ELSE IF ~direct.thrown THEN direct
     ELSE FallbackContent(url)

\* trackPrice(url, apiKey): the active tab shows activeTabUrl; the page is
\* fetched only when getPageContent throws. Nothing is stored: the data
\* extracted, or the error, goes back to the caller
TrackPrice(url, activeTabUrl, scriptOk, fetch, data) ==
  /\ LET fromTab == getPageContent(activeTabUrl, url, scriptOk)
     IN ev' = [op |-> "trackPrice", url |-> url, activeTabUrl |-> activeTabUrl,
               scriptOk |-> scriptOk,
               fetched |-> fromTab.thrown,
               fetch |-> IF fromTab.thrown THEN fetch ELSE "none",
               content |-> TrackPriceContent(url, activeTabUrl, scriptOk, fetch),
               returned |-> data]
  /\ UNCHANGED << uiVars, storageVars, browserVars, now, calls, runs >>

\* the pages the active tab can show; no script runs in about:newtab
TabUrls == Urls \cup {"about:newtab"}

NextTrack ==
  \/ /\ UNCHANGED ncalls
     /\ \E url \in Urls, activeTabUrl \in TabUrls, scriptOk \in BOOLEAN,
           fetch \in {"ok", "503", "failed"},
           data \in {LLMError, LLMData("Lamp", P_2)} :
          /\ activeTabUrl = "about:newtab" => ~scriptOk
          /\ TrackPrice(url, activeTabUrl, scriptOk, fetch, data)
  \/ SetupPriceTracking(U1, P_2) /\ UNCHANGED ncalls

SpecTrack == InitSched /\ [][NextTrack]_vars

-----------------------------------------------------------------------------
(* Vocabulary of the properties *)

\* the numeric value of a price: every character but digits and commas is
\* dropped, the first comma is the decimal separator, what follows a second
\* comma is ignored; a price that is absent or holds neither digit nor comma
\* is worth 0, one with a comma and no digit around it has no value
PriceValue(price) ==
  LET kept   == SelectSeq(price, IsDigitOrComma)
      commas == {i \in 1..Len(kept) : kept[i] = ","}
      c      == IF commas = {} THEN Len(kept) + 1
                ELSE CHOOSE i \in commas : \A j \in commas : i <= j
      whole  == SubSeq(kept, 1, c - 1)
      frac   == DigitPrefix(SubSeq(kept, c + 1, Len(kept)))
  IN IF price = Null \/ kept = << >> THEN Num(0)
     ELSE IF whole = << >> /\ frac = << >> THEN NaN
     ELSE Num(DigitsToNat(whole) * 10^Scale + DigitsToNat(frac) * 10^(Scale - Len(frac)))

SameValue(p, q) == NumEq(PriceValue(p), PriceValue(q))
LowerValue(p, q) == NumLt(PriceValue(p), PriceValue(q))

HasItem(tp, url) == \E i \in 1..Len(tp) : tp[i].url = url

\* the history of the item of this url, empty when there is no such item
HistoryOf(tp, url) ==
  IF HasItem(tp, url)
  THEN (CHOOSE item \in {tp[i] : i \in 1..Len(tp)} : item.url = url).history
  ELSE << >>

\* the entry a call made at time t with this price adds
EntryFor(price, t) ==
  [price |-> IF price = << >> THEN ZeroPrice ELSE price,
   date |-> DateOf(t), timestamp |-> t]

\* h2 is h with entry e appended, the oldest entry dropped at the limit
AppendedTo(h, e, h2) ==
  IF Len(h) < MAX_HISTORY THEN h2 = Append(h, e) ELSE h2 = Append(Tail(h), e)

AddDone == ev.op = "addPriceToHistory"

-----------------------------------------------------------------------------
(* C1 *)

\* C1: an addPriceToHistory(url, name, price) whose write succeeds appends
\* an entry if and only if the item has no last entry or the value of price
\* differs from the value of the last entry's price; in every stored history
\* no two adjacent entries have equal values.
C1_AppendOnlyWhenDifferent ==
  /\ (AddDone /\ ev.ok) =>
       LET h  == HistoryOf(ev.before, ev.url)
           h2 == HistoryOf(trackedPrices, ev.url)
       IN IF h = << >> \/ ~SameValue(h[Len(h)].price, ev.price)
          THEN AppendedTo(h, EntryFor(ev.price, now), h2)
          ELSE h2 = h
  /\ \A i \in 1..Len(trackedPrices) :
       \A k \in 1..(Len(trackedPrices[i].history) - 1) :
         ~SameValue(trackedPrices[i].history[k].price,
                    trackedPrices[i].history[k + 1].price)

\* a call with the price written differently but worth the same appended nothing
C1_Witness ==
  /\ AddDone /\ ev.ok /\ ev.price = P_1c50
  /\ HistoryOf(ev.before, ev.url) # << >>
  /\ HistoryOf(trackedPrices, ev.url) = HistoryOf(ev.before, ev.url)
  /\ HistoryOf(trackedPrices, ev.url)[1].price = P_1c5

(* C2 *)

\* C2: from empty storage, every item's history holds at most 50 entries,
\* and an append to a history of 50 removes the first entry and keeps the
\* other 49 in their order before the new one.
C2_HistoryCapped ==
  /\ \A i \in 1..Len(trackedPrices) : Len(trackedPrices[i].history) <= 50
  /\ (AddDone /\ ev.ok /\ Len(HistoryOf(ev.before, ev.url)) = 50
        /\ HistoryOf(trackedPrices, ev.url) # HistoryOf(ev.before, ev.url)) =>
       LET h  == HistoryOf(ev.before, ev.url)
           h2 == HistoryOf(trackedPrices, ev.url)
       IN /\ Len(h2) = 50
          /\ \A k \in 1..49 : h2[k] = h[k + 1]
          /\ h2[50] = EntryFor(ev.price, now)

\* an append to a full history has evicted its oldest entry
C2_Witness ==
  /\ AddDone /\ ev.ok
  /\ Len(HistoryOf(ev.before, U1)) = 50
  /\ Len(HistoryOf(trackedPrices, U1)) = 50
  /\ HistoryOf(trackedPrices, U1) # HistoryOf(ev.before, U1)

(* C5 *)

C4_UrlUnique ==
  \A i, j \in 1..Len(trackedPrices) :
    trackedPrices[i].url = trackedPrices[j].url => i = j

\* a call that read storage without an item of its url writes when another
\* call has stored that item in between
C4_Witness ==
  /\ ev.op = "write" /\ ev.ok /\ ev.call # "removeTrackedItem"
  /\ ~HasItem(ev.read, ev.url)
  /\ HasItem(ev.before, ev.url)
  /\ HasItem(trackedPrices, ev.url)

(* C6 *)

\* C6: from an empty priceDropHistory, the stored priceDropHistory holds at
\* most 50 records; a storePriceDropNotification whose write succeeds puts
\* its record last, after the records stored before in their order, without
\* the oldest of them when there were 50.
C6_DropHistoryCapped ==
  /\ Len(priceDropHistory) <= 50
  /\ (ev.op = "storePriceDropNotification" /\ ev.ok) =>
       LET rec == [url |-> ev.url, productName |-> ev.name,
                   oldPrice |-> ev.oldPrice, newPrice |-> ev.newPrice,
                   timestamp |-> now]
           kept == IF Len(ev.before) < 50 THEN ev.before ELSE Tail(ev.before)
       IN priceDropHistory = Append(kept, rec)

\* a record stored into a full store, which held an older record of another
\* time first
C6_Witness ==
  /\ ev.op = "storePriceDropNotification" /\ ev.ok
  /\ Len(ev.before) = 50 /\ Len(priceDropHistory) = 50
  /\ ev.before[1].timestamp # priceDropHistory[50].timestamp

-----------------------------------------------------------------------------
(* C3 *)
(* A check of a URL by checkAllPrices sends a price-drop notification and   *)
(* stores a record in priceDropHistory exactly when a price was extracted   *)
(* and its value is lower than that of the latest price the tracked prices  *)
(* recorded for the URL when the run read them; otherwise (an equal or a   *)
(* higher price, no recorded price, no extracted price) the notifications   *)
(* and priceDropHistory are left as they were.                              *)

CheckDone == ev.op = "checkUrl"

-----------------------------------------------------------------------------
(* C7 *)
(* While priceAlarmEnabled in storage is not the boolean true, or no apiKey *)
(* is stored, a run of checkAllPrices ends after reading the settings: it   *)
(* fetches no page, calls the LLM for no URL, writes no tracked price and   *)
(* no price-drop record and sends no notification, also when the alarm      *)
(* fired and tracked items exist.                                           *)

SettingsClosed == priceAlarmEnabled # "true" \/ apiKey = ""

C7_NoEffectWhenDisabled ==
  SettingsClosed =>
    /\ \A r \in 1..Len(runs) :
         /\ runs[r].pc \in {"start", "done"}
         /\ runs[r].fetched = << >>
         /\ runs[r].extracted = << >>
         /\ runs[r].saved = << >>
         /\ runs[r].notified = << >>
    /\ notifications = << >>
    /\ priceDropHistory = << >>
    /\ trackedPrices \in {<< >>, << Lamp >>, << Lamp, Desk >>}

\* the setting is the string 'true', a key is stored, items are tracked,
\* the alarm fired and the run it started is over
C7_Witness ==
  /\ priceAlarmEnabled = "'true'"
  /\ apiKey # ""
  /\ trackedPrices # << >>
  /\ \E r \in 1..Len(runs) : runs[r].pc = "done"

-----------------------------------------------------------------------------
(* C8 *)
(* Once initialize has been called and a price tracker is set, the firing   *)
(* of the alarm named priceCheckAlarm starts exactly one run of             *)
(* checkAllPrices, however many times initialize was called; the firing of  *)
(* an alarm of any other name starts none.                                  *)

C8_OneRunPerFiring ==
  ev.op = "alarm" =>
    IF ev.name = PRICE_CHECK_ALARM_NAME /\ listeners >= 1 /\ priceTracker
    THEN Len(runs) = ev.runsBefore + 1
    ELSE Len(runs) = ev.runsBefore

-----------------------------------------------------------------------------
(* C9 *)
(* A run of checkAllPrices that found the alarm enabled and an API key      *)
(* fetches, by the time it is over, the page of every URL of the tracked    *)
(* items it read exactly once, whatever failed for the URLs before; and     *)
(* every run that was started is eventually over.                           *)

RunOver(r) == r <= Len(runs) /\ runs[r].pc = "done"

TimesFetched(r, url) ==
  Cardinality({k \in 1..Len(runs[r].fetched) : runs[r].fetched[k] = url})

EachUrlOnce(r) ==
  LET tp == runs[r].trackedPrices
  IN /\ \A i \in 1..Len(tp) : TimesFetched(r, tp[i].url) = 1
     /\ \A k \in 1..Len(runs[r].fetched) : HasItem(tp, runs[r].fetched[k])

C9_EachUrlOnceAndTerminates ==
  /\ [](\A r \in 1..MaxRuns :
          (RunOver(r) /\ ~SettingsClosed) => EachUrlOnce(r))
  /\ \A r \in 1..MaxRuns : (r <= Len(runs)) ~> RunOver(r)

\* a run is over that got a 503 for the first URL and extracted a price for
\* the second
C9_Witness ==
  \E r \in 1..Len(runs) :
    /\ runs[r].pc = "done"
    /\ runs[r].fetched = << U1, U2 >>
    /\ runs[r].extracted = << U2 >>
    /\ runs[r].saved = << U2 >>

-----------------------------------------------------------------------------
(* C10 *)
(* Whenever an alarm named priceCheckAlarm exists, priceAlarmEnabled is     *)
(* the boolean true in storage.                                             *)

C10_AlarmOnlyIfEnabled ==
  PRICE_CHECK_ALARM_NAME \in alarms => priceAlarmEnabled = "true"

-----------------------------------------------------------------------------
(* C11 *)
(* addPriceToHistory returns true exactly when the tracked prices it        *)
(* computed were written to storage: a call whose storage write fails       *)
(* returns false.                                                           *)

C11_TrueOnlyIfWritten ==
  AddDone => (ev.returned <=> ev.ok)

-----------------------------------------------------------------------------
(* C12 *)
(* After a removeTrackedItem(url) whose storage write succeeds, storage     *)
(* holds no tracked item of url and no trackedItems key url, and holds      *)
(* every other tracked item, with its history and in the same order, and    *)
(* every other trackedItems key with its value, as before the call.         *)

RemoveDone == ev.op = "removeTrackedItem"

-----------------------------------------------------------------------------
(* C13 *)
(* The trackedPrices of the popup's PriceTracker never holds two entries    *)
(* with the same url and the same date, whatever track requests were made   *)
(* and however they overlapped.                                             *)

C13_OneEntryPerUrlPerDay ==
  \A i, j \in 1..Len(popupPrices) :
    (popupPrices[i].url = popupPrices[j].url /\
     popupPrices[i].date = popupPrices[j].date) => i = j

-----------------------------------------------------------------------------
(* C14 *)
(* A click on a price-drop notification opens one tab, on the url the       *)
(* clicked notification was sent for.                                       *)

C14_ClickOpensClicked ==
  ev.op = "notificationClick" => openedTabs = Append(ev.tabsBefore, ev.clicked)

-----------------------------------------------------------------------------
(* C16 *)
(* trackPrice(url) hands the content of the active tab to the extraction    *)
(* only when the active tab shows url: when it shows another page, the      *)
(* page of url is fetched directly and the content handed over is that of   *)
(* url or the fallback content.                                             *)

C16_NoForeignContent ==
  ev.op = "trackPrice" =>
    /\ ev.content.page \in {ev.url, "fallback"}
    /\ ev.activeTabUrl # ev.url => ev.fetched

-----------------------------------------------------------------------------
(* C15 *)
(* When the fetch of a URL answers 503 in a run of checkAllPrices or of     *)
(* checkItemsOnStartup, the run calls no LLM extraction for the URL, leaves *)
(* trackedPrices (the histories and every lastChecked), the notifications   *)
(* and priceDropHistory as they were, and goes on with the URLs that        *)
(* remain.                                                                  *)

C15_SkippedOn503 ==
  (CheckDone /\ ev.fetch = "503") =>
    LET run == runs[ev.run]
    IN /\ \A k \in 1..Len(run.extracted) : run.extracted[k] # ev.url
       /\ \A k \in 1..Len(run.saved) : run.saved[k] # ev.url
       /\ \A k \in 1..Len(run.notified) : run.notified[k] # ev.url
       /\ trackedPrices = ev.before
       /\ notifications = ev.notificationsBefore
       /\ priceDropHistory = ev.dropsBefore
       /\ run.fetched \o run.todo = LatestKeys(run.trackedPrices)
       /\ run.pc = IF run.todo = << >> THEN "done" ELSE "loop"

\* a startup check got a 503 for a URL and has another URL to check
C15_Witness ==
  /\ CheckDone /\ ev.fetch = "503"
  /\ runs[ev.run].kind = "checkItemsOnStartup"
  /\ runs[ev.run].pc = "loop"
  /\ runs[ev.run].todo # << >>

-----------------------------------------------------------------------------
(* C17 *)
(* initialize schedules a startup check exactly when some item stored in    *)
(* trackedPrices was last checked one hour ago or more.                     *)

C17_StartupCheckWhenDue ==
  ev.op = "initialize" =>
    LET due == \E i \in 1..Len(ev.before) :
                 now - ev.before[i].lastChecked >= HourLength
    IN Len(startupTimers) = Len(ev.timersBefore) + (IF due THEN 1 ELSE 0)

====
